---- MODULE Spec2Model ----
(***************************************************************************)
(* go-revolut, business/1.0: the OAuthService (oauth.go) and the           *)
(* ExchangeService (Rate, Exchange) as a state machine.                    *)
(*                                                                         *)
(* Two goroutines call the five public methods on one OAuthService and one *)
(* ExchangeService.  A call runs in two steps: the method up to and        *)
(* including the hand-over of a request.Config to the transport            *)
(* (request.New), and, after the blocking round trip, the rest of the      *)
(* method on the transport's answer.  A call that returns before the       *)
(* transport is reached is one step.                                       *)
(*                                                                         *)
(* Go values: a nil pointer / nil error / nil interface is the empty       *)
(* sequence Nil, a non-nil one is a one-element sequence holding the       *)
(* value.  A float64 amount is an integer number of sixteenths (every such *)
(* value is exactly representable in binary floating point).               *)
(***************************************************************************)
EXTENDS Integers, Sequences, FiniteSets, TLC

\* ---------------------------------------------------------------- bounds
\* Rate is called with the amounts 0/16 .. MaxAmount/16 (and 22/16 = 1.375)
MaxAmount == 3
\* transport calls issued through the ExchangeService that are observed
MaxCalls == 2

\* ---------------------------------------------------------------- Go values
Nil == << >>
Some(v) == << v >>

Procs == {"g1", "g2"}

\* ---------------------------------------------------------------- constants
StatusOK == 200

clientAssertionType == "urn:ietf:params:oauth:client-assertion-type:jwt-bearer"
aud == "https://revolut.com"
grant_type_authorization_code == "authorization_code"
grant_type_refresh_token == "refresh_token"

\* ---------------------------------------------------------------- inputs
\* *rsa.PrivateKey values handed to NewOAuth: a 2048-bit key signs, a 256-bit
\* key is too short for an RS256 signature and SignedString returns an error
PrivateKeys == {"rsa2048", "rsa256"}
ErrSigning == "crypto/rsa: message too long for RSA public key size"

\* errors an ExchangeService can hold from its construction
StoredErrors == {Nil, Some("access token is required")}

Amounts == (0 .. MaxAmount) \cup {22}
ExchangeRateReqs == {[From |-> "USD", To |-> "EUR", Amount |-> a] : a \in Amounts}

ExchangeReqs ==
    {[From |-> [AccountId |-> "acc-gbp", Amount |-> 160, Currency |-> "GBP"],
      To |-> [AccountId |-> "acc-usd", Amount |-> 0, Currency |-> "USD"],
      Reference |-> "ref", RequestId |-> id] : id \in {"req-1", "req-2"}}

Codes == {"code123"}
RefreshTokens == {"ref"}
ClientIds == {"client-1"}
RedirectUris == {"https://example.com/cb"}

\* ---------------------------------------------------------------- transport answers
tokBody == "{\"access_token\":\"tok\",\"token_type\":\"bearer\",\"expires_in\":3600,\"refresh_token\":\"ref\"}"
arrBody == "[{\"Id\":\"acc\",\"Code\":\"c0de\"}]"
badBody == "<html>Bad Gateway</html>"
Bodies == {tokBody, arrBody, badBody}

StatusCodes == {StatusOK, 201, 401}
ErrTransport == "Get: dial tcp: i/o timeout"

\* what request.New can return: (resp []byte, statusCode int, err error)
Responses ==
    {[resp |-> b, statusCode |-> s, err |-> Nil] : b \in Bodies, s \in StatusCodes}
    \cup {[resp |-> "", statusCode |-> 0, err |-> Some(ErrTransport)],
          [resp |-> tokBody, statusCode |-> StatusOK, err |-> Some(ErrTransport)]}

\* ---------------------------------------------------------------- encoding/json
\* the JSON value a body holds: an object (its members), an array (its
\* elements) or no JSON at all
JsonParse(b) ==
    CASE b = tokBody ->
           [kind |-> "object",
            members |-> [access_token |-> "tok", token_type |-> "bearer",
                         expires_in |-> 3600, refresh_token |-> "ref"]]
      [] b = arrBody ->
           [kind |-> "array", elems |-> << [Id |-> "acc", Code |-> "c0de"] >>]
      [] OTHER -> [kind |-> "invalid"]

\* a struct field: the member of that name when the object has it, else the
\* field's zero value
Member(obj, name, zero) == IF name \in DOMAIN obj THEN obj[name] ELSE zero

ErrSyntax == "invalid character '<' looking for beginning of value"
ErrUnmarshalType(got, into) ==
    "json: cannot unmarshal " \o got \o " into Go value of type " \o into

ZeroTime == "0001-01-01T00:00:00Z"
ZeroAmount == [Amount |-> 0, Currency |-> ""]

\* json.Unmarshal(resp, r) with r a pointer to a struct: [ok, members, err],
\* the struct's fields being read off the object's members (OAuthRespOf, ...)
UnmarshalStruct(b, typeName) ==
    LET j == JsonParse(b) IN
    CASE j.kind = "object" -> [ok |-> TRUE, members |-> j.members]
      [] j.kind = "array" -> [ok |-> FALSE, err |-> ErrUnmarshalType("array", typeName)]
      [] OTHER -> [ok |-> FALSE, err |-> ErrSyntax]

OAuthRespOf(m) ==
    [AccessToken |-> Member(m, "access_token", ""),
     TokenType |-> Member(m, "token_type", ""),
     ExpiresIn |-> Member(m, "expires_in", 0),
     RefreshToken |-> Member(m, "refresh_token", "")]

AuthorizationCodeRespOf(m) ==
    [Id |-> Member(m, "Id", ""), Code |-> Member(m, "Code", "")]

ExchangeRateRespOf(m) ==
    [From |-> Member(m, "from", ZeroAmount),
     To |-> Member(m, "to", ZeroAmount),
     Rate |-> Member(m, "rate", 0),
     Fee |-> Member(m, "fee", ZeroAmount),
     RateDate |-> Member(m, "rate_date", ZeroTime)]

ExchangeRespOf(m) ==
    [Id |-> Member(m, "id", ""),
     State |-> Member(m, "state", ""),
     ReasonCode |-> Member(m, "reason_code", ""),
     CreatedAt |-> Member(m, "created_at", ZeroTime),
     CompletedAt |-> Member(m, "completed_at", ZeroTime)]

\* json.Unmarshal(resp, &r) with r a []*AuthorizationCodeResp
UnmarshalAuthorizationCodes(b) ==
    LET j == JsonParse(b) IN
    CASE j.kind = "array" ->
           [ok |-> TRUE,
            value |-> [i \in 1 .. Len(j.elems) |-> AuthorizationCodeRespOf(j.elems[i])]]
      [] j.kind = "object" ->
           [ok |-> FALSE,
            err |-> ErrUnmarshalType("object", "[]*business.AuthorizationCodeResp")]
      [] OTHER -> [ok |-> FALSE, err |-> ErrSyntax]

\* ---------------------------------------------------------------- fmt, net/url
Digit(d) == <<"0", "1", "2", "3", "4", "5", "6", "7", "8", "9">>[d + 1]

RECURSIVE Itoa(_)
Itoa(n) == IF n < 10 THEN Digit(n) ELSE Itoa(n \div 10) \o Digit(n % 10)

\* fmt.Sprintf("%0.2f", x) for x = a/16 >= 0: the nearest multiple of 0.01,
\* a tie going to the even one, printed with two decimal digits
Sprintf02f(a) ==
    LET q == (a * 100) \div 16
        r == (a * 100) % 16
        cents == IF 2 * r > 16 \/ (2 * r = 16 /\ q % 2 = 1) THEN q + 1 ELSE q
    IN Itoa(cents \div 100) \o "." \o Digit((cents \div 10) % 10) \o Digit(cents % 10)

\* url.QueryEscape on the strings of this model: letters, digits and "." are
\* kept, a space becomes "+"
QueryEscape(s) == CASE s = "a b" -> "a+b" [] OTHER -> s

\* url.Values.Encode: key=value pairs in the order of the sorted keys
ParamOrder == <<"amount", "from", "to">>
RECURSIVE EncodeFrom(_, _)
EncodeFrom(v, i) ==
    IF i > Len(ParamOrder) THEN ""
    ELSE LET k == ParamOrder[i]
             rest == EncodeFrom(v, i + 1)
         IN IF k \notin DOMAIN v THEN rest
            ELSE QueryEscape(k) \o "=" \o QueryEscape(v[k])
                 \o (IF rest = "" THEN "" ELSE "&" \o rest)
Encode(v) == EncodeFrom(v, 1)

\* request.Config with the zero value in every field a caller leaves out
Config(c) ==
    [Method |-> c.Method, Url |-> c.Url,
     AccessToken |-> IF "AccessToken" \in DOMAIN c THEN c.AccessToken ELSE "",
     Sandbox |-> IF "Sandbox" \in DOMAIN c THEN c.Sandbox ELSE FALSE,
     Body |-> IF "Body" \in DOMAIN c THEN c.Body ELSE Nil,
     ContentType |-> IF "ContentType" \in DOMAIN c THEN c.ContentType ELSE ""]

\* ---------------------------------------------------------------- state
VARIABLES
    oa,             \* the OAuthService: clientId, privateKey, issuer, sandbox
    e,              \* the ExchangeService: accessToken, sandbox, err
    pc,             \* per goroutine: "idle", "waiting" (in request.New), "returned"
    op,             \* per goroutine: the method of its current call
    arg,            \* per goroutine: the arguments of its current call
    sent,           \* per goroutine: the Configs its current call gave request.New
    resp,           \* per goroutine: what request.New returned to its current call
    ret,            \* per goroutine: what its current call returned
    exchangeCalls   \* request.New calls made by Rate and Exchange so far

vars == <<oa, e, pc, op, arg, sent, resp, ret, exchangeCalls>>

\* NewOAuth(clientId, privateKey, issuer, sandbox)
NewOAuth(clientId, privateKey, issuer, sandbox) ==
    [clientId |-> clientId, privateKey |-> privateKey,
     issuer |-> issuer, sandbox |-> sandbox]

\* an ExchangeService as its constructor leaves it: the stored error is nil,
\* or it is set and the instance is poisoned
ExchangeService(accessToken, sandbox, err) ==
    [accessToken |-> accessToken, sandbox |-> sandbox, err |-> err]

Init ==
    /\ \E k \in PrivateKeys, sb \in BOOLEAN :
          oa = NewOAuth("client-1", k, "example.com", sb)
    /\ \E sb \in BOOLEAN, err \in StoredErrors :
          e = ExchangeService(IF err = Nil THEN "tok" ELSE "", sb, err)
    /\ pc = [p \in Procs |-> "idle"]
    /\ op = [p \in Procs |-> ""]
    /\ arg = [p \in Procs |-> Nil]
    /\ sent = [p \in Procs |-> << >>]
    /\ resp = [p \in Procs |-> Nil]
    /\ ret = [p \in Procs |-> Nil]
    /\ exchangeCalls = 0

\* ---------------------------------------------------------------- steps of a call
\* goroutine p enters method o with arguments a
Enter(p, o, a) ==
    /\ pc[p] # "waiting"
    /\ op' = [op EXCEPT ![p] = o]
    /\ arg' = [arg EXCEPT ![p] = a]
    /\ resp' = [resp EXCEPT ![p] = Nil]

\* ... and returns (result, err) without reaching request.New
ReturnEarly(p, result, err) ==
    /\ pc' = [pc EXCEPT ![p] = "returned"]
    /\ sent' = [sent EXCEPT ![p] = << >>]
    /\ ret' = [ret EXCEPT ![p] = [result |-> result, err |-> err]]

\* ... or calls request.New(cfg) and blocks in it
CallTransport(p, cfg) ==
    /\ pc' = [pc EXCEPT ![p] = "waiting"]
    /\ sent' = [sent EXCEPT ![p] = << cfg >>]
    /\ ret' = [ret EXCEPT ![p] = Nil]

\* request.New returns r to goroutine p, whose method returns out
Return(p, r, out) ==
    /\ pc' = [pc EXCEPT ![p] = "returned"]
    /\ resp' = [resp EXCEPT ![p] = Some(r)]
    /\ ret' = [ret EXCEPT ![p] = out]
    /\ UNCHANGED <<op, arg, sent>>

\* ---------------------------------------------------------------- ExchangeService
\* the Config Rate builds
RateConfig(svc, exchangeRateReq) ==
    LET params == [from |-> exchangeRateReq.From,
                   to |-> exchangeRateReq.To,
                   amount |-> Sprintf02f(exchangeRateReq.Amount)]
    IN Config([Method |-> "GET",
               Url |-> "https://b2b.revolut.com/api/1.0/rate?" \o Encode(params),
               AccessToken |-> svc.accessToken,
               Sandbox |-> svc.sandbox])

\* Rate after request.New returned r
RateOutcome(r) ==
    IF r.err # Nil THEN [result |-> Nil, err |-> r.err]
    ELSE IF r.statusCode # StatusOK THEN [result |-> Nil, err |-> Some(r.resp)]
    ELSE LET u == UnmarshalStruct(r.resp, "business.ExchangeRateResp")
         IN IF ~u.ok THEN [result |-> Nil, err |-> Some(u.err)]
            ELSE [result |-> Some(ExchangeRateRespOf(u.members)), err |-> Nil]

\* Rate without the check of the stored error
Rate_noErrCheck(p) ==
    \E exchangeRateReq \in ExchangeRateReqs :
       /\ Enter(p, "Rate", Some(exchangeRateReq))
       /\ exchangeCalls < MaxCalls
       /\ CallTransport(p, RateConfig(e, exchangeRateReq))
       /\ exchangeCalls' = exchangeCalls + 1
       /\ UNCHANGED <<oa, e>>

Rate(p) ==
    \E exchangeRateReq \in ExchangeRateReqs :
       /\ Enter(p, "Rate", Some(exchangeRateReq))
       /\ IF e.err # Nil
          THEN ReturnEarly(p, Nil, e.err) /\ UNCHANGED exchangeCalls
          ELSE /\ exchangeCalls < MaxCalls
               /\ CallTransport(p, RateConfig(e, exchangeRateReq))
               /\ exchangeCalls' = exchangeCalls + 1
       /\ UNCHANGED <<oa, e>>

\* RateReturn storing a failure in the service
RateReturn_poison(p) ==
    /\ pc[p] = "waiting" /\ op[p] = "Rate"
    /\ \E r \in Responses :
          /\ Return(p, r, RateOutcome(r))
          /\ e' = IF RateOutcome(r).err # Nil
                  THEN [e EXCEPT !.err = RateOutcome(r).err] ELSE e
    /\ UNCHANGED <<oa, exchangeCalls>>

RateReturn(p) ==
    /\ pc[p] = "waiting" /\ op[p] = "Rate"
    /\ \E r \in Responses : Return(p, r, RateOutcome(r))
    /\ UNCHANGED <<oa, e, exchangeCalls>>

\* the JSON object encoding/json writes for an ExchangeAmount and an
\* ExchangeReq, by their struct tags (amount has omitempty)
ExchangeAmountJSON(a) ==
    IF a.Amount = 0
    THEN [account_id |-> a.AccountId, currency |-> a.Currency]
    ELSE [account_id |-> a.AccountId, amount |-> a.Amount, currency |-> a.Currency]

ExchangeReqJSON(req) ==
    [from |-> ExchangeAmountJSON(req.From), to |-> ExchangeAmountJSON(req.To),
     reference |-> req.Reference, request_id |-> req.RequestId]

\* the Config Exchange builds
ExchangeConfig(svc, exchangeReq) ==
    Config([Method |-> "POST",
            Url |-> "https://b2b.revolut.com/api/1.0/exchange",
            AccessToken |-> svc.accessToken,
            Sandbox |-> svc.sandbox,
            Body |-> Some(exchangeReq),
            ContentType |-> "ContentType_APPLICATION_JSON"])

\* ExchangeOutcome accepting every 2xx status
ExchangeOutcome_any2xx(r) ==
    IF r.err # Nil THEN [result |-> Nil, err |-> r.err]
    ELSE IF r.statusCode < 200 \/ r.statusCode > 299
         THEN [result |-> Nil, err |-> Some(r.resp)]
    ELSE LET u == UnmarshalStruct(r.resp, "business.ExchangeResp")
         IN IF ~u.ok THEN [result |-> Nil, err |-> Some(u.err)]
            ELSE [result |-> Some(ExchangeRespOf(u.members)), err |-> Nil]

\* Exchange after request.New returned r
ExchangeOutcome(r) ==
    IF r.err # Nil THEN [result |-> Nil, err |-> r.err]
    ELSE IF r.statusCode # StatusOK THEN [result |-> Nil, err |-> Some(r.resp)]
    ELSE LET u == UnmarshalStruct(r.resp, "business.ExchangeResp")
         IN IF ~u.ok THEN [result |-> Nil, err |-> Some(u.err)]
            ELSE [result |-> Some(ExchangeRespOf(u.members)), err |-> Nil]

\* Exchange answering a request-id another call already carries without
\* posting it again
Exchange_dedup(p) ==
    \E exchangeReq \in ExchangeReqs :
       /\ Enter(p, "Exchange", Some(exchangeReq))
       /\ IF e.err # Nil
          THEN ReturnEarly(p, Nil, e.err) /\ UNCHANGED exchangeCalls
          ELSE IF \E q \in Procs \ {p} :
                     /\ op[q] = "Exchange" /\ sent[q] # << >>
                     /\ sent[q][1].Body[1].RequestId = exchangeReq.RequestId
               THEN ReturnEarly(p, Nil, Some("duplicate request_id"))
                    /\ UNCHANGED exchangeCalls
               ELSE /\ exchangeCalls < MaxCalls
                    /\ CallTransport(p, ExchangeConfig(e, exchangeReq))
                    /\ exchangeCalls' = exchangeCalls + 1
       /\ UNCHANGED <<oa, e>>

Exchange(p) ==
    \E exchangeReq \in ExchangeReqs :
       /\ Enter(p, "Exchange", Some(exchangeReq))
       /\ IF e.err # Nil
          THEN ReturnEarly(p, Nil, e.err) /\ UNCHANGED exchangeCalls
          ELSE /\ exchangeCalls < MaxCalls
               /\ CallTransport(p, ExchangeConfig(e, exchangeReq))
               /\ exchangeCalls' = exchangeCalls + 1
       /\ UNCHANGED <<oa, e>>

ExchangeReturn(p) ==
    /\ pc[p] = "waiting" /\ op[p] = "Exchange"
    /\ \E r \in Responses : Return(p, r, ExchangeOutcome(r))
    /\ UNCHANGED <<oa, e, exchangeCalls>>

\* ---------------------------------------------------------------- OAuthService
\* jwt.NewWithClaims(RS256, {iss, aud, sub}).SignedString(privateKey): the
\* token is the sequence header, claims, signature; the empty string is the
\* empty sequence
generateClientAssertion(svc) ==
    IF svc.privateKey = "rsa2048"
    THEN [signedToken |->
              << [alg |-> "RS256", typ |-> "JWT"],
                 [iss |-> svc.issuer, aud |-> aud, sub |-> svc.clientId],
                 [signedWith |-> svc.privateKey] >>,
          err |-> Nil]
    ELSE [signedToken |-> << >>, err |-> Some(ErrSigning)]

\* the Config ExchangeAuthorisationCode builds
ExchangeAuthorisationCodeConfig(svc, code, clientAssertion) ==
    Config([Method |-> "POST",
            Url |-> "https://b2b.revolut.com/api/1.0/auth/token",
            Sandbox |-> svc.sandbox,
            Body |-> Some([grant_type |-> grant_type_authorization_code,
                           code |-> code,
                           client_id |-> svc.clientId,
                           client_assertion_type |-> clientAssertionType,
                           client_assertion |-> clientAssertion]),
            ContentType |-> "ContentType_APPLICATION_FORM"])

\* ExchangeAuthorisationCode after request.New returned r
ExchangeAuthorisationCodeOutcome(r) ==
    IF r.err # Nil THEN [result |-> Nil, err |-> r.err]
    ELSE IF r.statusCode # StatusOK THEN [result |-> Nil, err |-> Some(r.resp)]
    ELSE LET u == UnmarshalStruct(r.resp, "business.OAuthResp")
         IN IF ~u.ok THEN [result |-> Nil, err |-> Some(u.err)]
            ELSE [result |-> Some(OAuthRespOf(u.members)), err |-> Nil]

ExchangeAuthorisationCode(p) ==
    \E code \in Codes :
       LET ca == generateClientAssertion(oa) IN
       /\ Enter(p, "ExchangeAuthorisationCode", Some([code |-> code]))
       /\ IF ca.err # Nil
          THEN ReturnEarly(p, Nil, ca.err)
          ELSE CallTransport(p, ExchangeAuthorisationCodeConfig(oa, code, ca.signedToken))
       /\ UNCHANGED <<oa, e, exchangeCalls>>

\* ExchangeAuthorisationCodeReturn sending the request again after a failure
ExchangeAuthorisationCodeReturn_retry(p) ==
    /\ pc[p] = "waiting" /\ op[p] = "ExchangeAuthorisationCode"
    /\ \E r \in Responses :
          IF ExchangeAuthorisationCodeOutcome(r).err # Nil /\ Len(sent[p]) < 2
          THEN /\ sent' = [sent EXCEPT ![p] = Append(@, sent[p][1])]
               /\ UNCHANGED <<pc, op, arg, resp, ret>>
          ELSE Return(p, r, ExchangeAuthorisationCodeOutcome(r))
    /\ UNCHANGED <<oa, e, exchangeCalls>>

ExchangeAuthorisationCodeReturn(p) ==
    /\ pc[p] = "waiting" /\ op[p] = "ExchangeAuthorisationCode"
    /\ \E r \in Responses : Return(p, r, ExchangeAuthorisationCodeOutcome(r))
    /\ UNCHANGED <<oa, e, exchangeCalls>>

\* the Config RefreshAccessToken builds
RefreshAccessTokenConfig(svc, refreshToken, clientAssertion) ==
    Config([Method |-> "POST",
            Url |-> "https://b2b.revolut.com/api/1.0/auth/token",
            Sandbox |-> svc.sandbox,
            Body |-> Some([grant_type |-> grant_type_refresh_token,
                           refresh_token |-> refreshToken,
                           client_id |-> svc.clientId,
                           client_assertion_type |-> clientAssertionType,
                           client_assertion |-> clientAssertion]),
            ContentType |-> "ContentType_APPLICATION_FORM"])

\* RefreshAccessToken after request.New returned r
RefreshAccessTokenOutcome(r) ==
    IF r.err # Nil THEN [result |-> Nil, err |-> r.err]
    ELSE IF r.statusCode # StatusOK THEN [result |-> Nil, err |-> Some(r.resp)]
    ELSE LET u == UnmarshalStruct(r.resp, "business.OAuthResp")
         IN IF ~u.ok THEN [result |-> Nil, err |-> Some(u.err)]
            ELSE [result |-> Some(OAuthRespOf(u.members)), err |-> Nil]

\* RefreshAccessToken dropping the error of generateClientAssertion
RefreshAccessToken_ignoreSignErr(p) ==
    \E refreshToken \in RefreshTokens :
       LET ca == generateClientAssertion(oa) IN
       /\ Enter(p, "RefreshAccessToken", Some([refreshToken |-> refreshToken]))
       /\ CallTransport(p, RefreshAccessTokenConfig(oa, refreshToken, ca.signedToken))
       /\ UNCHANGED <<oa, e, exchangeCalls>>

RefreshAccessToken(p) ==
    \E refreshToken \in RefreshTokens :
       LET ca == generateClientAssertion(oa) IN
       /\ Enter(p, "RefreshAccessToken", Some([refreshToken |-> refreshToken]))
       /\ IF ca.err # Nil
          THEN ReturnEarly(p, Nil, ca.err)
          ELSE CallTransport(p, RefreshAccessTokenConfig(oa, refreshToken, ca.signedToken))
       /\ UNCHANGED <<oa, e, exchangeCalls>>

RefreshAccessTokenReturn(p) ==
    /\ pc[p] = "waiting" /\ op[p] = "RefreshAccessToken"
    /\ \E r \in Responses : Return(p, r, RefreshAccessTokenOutcome(r))
    /\ UNCHANGED <<oa, e, exchangeCalls>>

\* the Config GetAuthorisationCode builds: the format string is
\* "...app-confirm?client_id=%s&redirect_uri%s", and no Sandbox is set
GetAuthorisationCodeConfig(svc, clientId, redirectUri) ==
    Config([Method |-> "GET",
            Url |-> "https://business.revolut.com/app-confirm?client_id="
                    \o clientId \o "&redirect_uri" \o redirectUri,
            Body |-> Nil])

\* GetAuthorisationCodeOutcome looking at the status before the error
GetAuthorisationCodeOutcome_statusFirst(r) ==
    IF r.statusCode # StatusOK THEN [result |-> Nil, err |-> Some(r.resp)]
    ELSE IF r.err # Nil THEN [result |-> Nil, err |-> r.err]
    ELSE LET u == UnmarshalAuthorizationCodes(r.resp)
         IN IF ~u.ok THEN [result |-> Nil, err |-> Some(u.err)]
            ELSE [result |-> Some(u.value), err |-> Nil]

\* GetAuthorisationCode after request.New returned r
GetAuthorisationCodeOutcome(r) ==
    IF r.err # Nil THEN [result |-> Nil, err |-> r.err]
    ELSE IF r.statusCode # StatusOK THEN [result |-> Nil, err |-> Some(r.resp)]
    ELSE LET u == UnmarshalAuthorizationCodes(r.resp)
         IN IF ~u.ok THEN [result |-> Nil, err |-> Some(u.err)]
            ELSE [result |-> Some(u.value), err |-> Nil]

GetAuthorisationCode(p) ==
    \E clientId \in ClientIds, redirectUri \in RedirectUris :
       /\ Enter(p, "GetAuthorisationCode",
                Some([clientId |-> clientId, redirectUri |-> redirectUri]))
       /\ CallTransport(p, GetAuthorisationCodeConfig(oa, clientId, redirectUri))
       /\ UNCHANGED <<oa, e, exchangeCalls>>

GetAuthorisationCodeReturn(p) ==
    /\ pc[p] = "waiting" /\ op[p] = "GetAuthorisationCode"
    /\ \E r \in Responses : Return(p, r, GetAuthorisationCodeOutcome(r))
    /\ UNCHANGED <<oa, e, exchangeCalls>>

\* ---------------------------------------------------------------- specification
Next ==
    \E p \in Procs :
       \/ Rate(p)
       \/ RateReturn(p)
       \/ Exchange(p)
       \/ ExchangeReturn(p)
       \/ ExchangeAuthorisationCode(p)
       \/ ExchangeAuthorisationCodeReturn(p)
       \/ RefreshAccessToken(p)
       \/ RefreshAccessTokenReturn(p)
       \/ GetAuthorisationCode(p)
       \/ GetAuthorisationCodeReturn(p)

Spec == Init /\ [][Next]_vars

\* ---------------------------------------------------------------- properties
ExchangeOps == {"Rate", "Exchange"}
TokenOps == {"ExchangeAuthorisationCode", "RefreshAccessToken"}
OAuthOps == TokenOps \cup {"GetAuthorisationCode"}

\* the call of method o returns on a configuration error, before the transport
ShortCircuits(o) ==
    \/ o \in ExchangeOps /\ e.err # Nil
    \/ o \in TokenOps /\ generateClientAssertion(oa).err # Nil

\* the body of a 200 answer decodes into the result type of method o
Decodes(o, b) ==
    JsonParse(b).kind = (IF o = "GetAuthorisationCode" THEN "array" ELSE "object")

\* C1: on a poisoned ExchangeService every Rate and Exchange call returns
\* (nil, the stored error) and none reaches the transport: the count of
\* transport calls stays zero.
C1_PoisonedShortCircuits ==
    e.err # Nil =>
       /\ exchangeCalls = 0
       /\ \A p \in Procs :
             op[p] \in ExchangeOps =>
                /\ pc[p] = "returned"
                /\ sent[p] = << >>
                /\ resp[p] = Nil
                /\ ret[p] = [result |-> Nil, err |-> e.err]

C1_Witness ==
    /\ e.err # Nil
    /\ op["g1"] = "Rate" /\ pc["g1"] = "returned"
    /\ op["g2"] = "Exchange" /\ pc["g2"] = "returned"

\* C2: on a non-poisoned ExchangeService, when the transport returns no error
\* and a status other than 200, Rate and Exchange return a nil result and an
\* error whose message is the response body, whatever the body holds.
C2_Non200CarriesBody ==
    \A p \in Procs :
       (/\ op[p] \in ExchangeOps /\ pc[p] = "returned" /\ e.err = Nil
        /\ resp[p] # Nil /\ resp[p][1].err = Nil
        /\ resp[p][1].statusCode # 200)
       => ret[p] = [result |-> Nil, err |-> Some(resp[p][1].resp)]

C2_Witness ==
    /\ e.err = Nil
    /\ op["g1"] = "Rate" /\ pc["g1"] = "returned"
    /\ resp["g1"] = Some([resp |-> tokBody, statusCode |-> 201, err |-> Nil])
    /\ op["g2"] = "Exchange" /\ pc["g2"] = "returned"
    /\ resp["g2"] = Some([resp |-> badBody, statusCode |-> 401, err |-> Nil])

\* C3: for ExchangeAuthorisationCode, RefreshAccessToken and
\* GetAuthorisationCode, once the transport has answered: a transport error
\* is returned as it is, whatever the status and body; else a status other
\* than 200 gives an error carrying the body; else a decode failure is
\* returned; and a result with a nil error is returned exactly when there is
\* no transport error, the status is 200 and the body decodes.
C3_OutcomeOrder ==
    \A p \in Procs :
       (op[p] \in OAuthOps /\ pc[p] = "returned" /\ resp[p] # Nil) =>
          LET r == resp[p][1]
              good == r.err = Nil /\ r.statusCode = 200 /\ Decodes(op[p], r.resp)
          IN /\ r.err # Nil => ret[p] = [result |-> Nil, err |-> r.err]
             /\ (r.err = Nil /\ r.statusCode # 200)
                   => ret[p] = [result |-> Nil, err |-> Some(r.resp)]
             /\ (r.err = Nil /\ r.statusCode = 200 /\ ~Decodes(op[p], r.resp))
                   => /\ ret[p].result = Nil
                      /\ ret[p].err \in {Some(ErrSyntax),
                                         Some(ErrUnmarshalType("array", "business.OAuthResp")),
                                         Some(ErrUnmarshalType("object", "[]*business.AuthorizationCodeResp"))}
             /\ (ret[p].err = Nil /\ ret[p].result # Nil) <=> good
             /\ ret[p].err = Nil <=> good

C3_Witness ==
    /\ op["g1"] = "GetAuthorisationCode" /\ pc["g1"] = "returned"
    /\ resp["g1"] = Some([resp |-> "", statusCode |-> 0, err |-> Some(ErrTransport)])
    /\ ret["g1"].err = Some(ErrTransport)
    /\ op["g2"] = "ExchangeAuthorisationCode" /\ pc["g2"] = "returned"
    /\ resp["g2"] = Some([resp |-> tokBody, statusCode |-> 200, err |-> Nil])
    /\ ret["g2"].err = Nil

\* C4: every call of a public method makes at most one transport call, and
\* exactly one unless it returns on a configuration error; a failed transport
\* call is not followed by another one in the same call.
C4_OneTransportCall ==
    \A p \in Procs :
       /\ Len(sent[p]) <= 1
       /\ pc[p] = "waiting" => Len(sent[p]) = 1
       /\ pc[p] = "returned" =>
             Len(sent[p]) = (IF ShortCircuits(op[p]) THEN 0 ELSE 1)

C4_Witness ==
    /\ op["g1"] = "ExchangeAuthorisationCode" /\ pc["g1"] = "returned"
    /\ ret["g1"].err = Some(badBody) /\ Len(sent["g1"]) = 1
    /\ op["g2"] = "Rate" /\ pc["g2"] = "returned"
    /\ ret["g2"].err = Some(ErrTransport) /\ Len(sent["g2"]) = 1

\* C5: when signing the client assertion fails, ExchangeAuthorisationCode and
\* RefreshAccessToken return (nil, the signing error) before any transport
\* call; every token request sent carries an assertion signed with the
\* service's key over its own claims.
C5_NoUnsignedTokenRequest ==
    \A p \in Procs :
       op[p] \in TokenOps =>
          /\ generateClientAssertion(oa).err # Nil =>
                /\ pc[p] = "returned"
                /\ sent[p] = << >>
                /\ ret[p] = [result |-> Nil, err |-> generateClientAssertion(oa).err]
          /\ \A i \in 1 .. Len(sent[p]) :
                LET ca == sent[p][i].Body[1].client_assertion IN
                /\ Len(ca) = 3
                /\ ca[1].alg = "RS256"
                /\ ca[2] = [iss |-> oa.issuer, aud |-> aud, sub |-> oa.clientId]
                /\ ca[3].signedWith = "rsa2048"

C5_Witness ==
    /\ oa.privateKey = "rsa256"
    /\ op["g1"] = "ExchangeAuthorisationCode" /\ pc["g1"] = "returned"
    /\ op["g2"] = "RefreshAccessToken" /\ pc["g2"] = "returned"
    /\ ret["g2"] = [result |-> Nil, err |-> Some(ErrSigning)]

\* the sandbox flag of the service method o is called on
SandboxOf(o) == IF o \in ExchangeOps THEN e.sandbox ELSE oa.sandbox

\* C6: for each of the five methods the sandbox flag handed to the transport
\* is the sandbox flag of the service instance the method is called on.
C6_SandboxPassedOn ==
    \A p \in Procs :
       \A i \in 1 .. Len(sent[p]) : sent[p][i].Sandbox = SandboxOf(op[p])

\* C7: Exchange hands the caller's request-id unchanged to the POST body and
\* does not deduplicate: on a non-poisoned service every Exchange call,
\* also one whose request-id another call carries, issues its own POST whose
\* body has that request-id.
C7_RequestIdPassedThrough ==
    \A p \in Procs :
       (op[p] = "Exchange" /\ pc[p] # "idle" /\ e.err = Nil) =>
          /\ Len(sent[p]) = 1
          /\ sent[p][1].Method = "POST"
          /\ sent[p][1].Body # Nil
          /\ ExchangeReqJSON(sent[p][1].Body[1]).request_id = arg[p][1].RequestId
          /\ ExchangeReqJSON(sent[p][1].Body[1]) = ExchangeReqJSON(arg[p][1])

C7_Witness ==
    /\ e.err = Nil
    /\ op["g1"] = "Exchange" /\ op["g2"] = "Exchange"
    /\ pc["g1"] = "returned" /\ pc["g2"] = "waiting"
    /\ arg["g1"][1].RequestId = "req-1" /\ arg["g2"][1].RequestId = "req-1"
    /\ sent["g1"][1].Body[1].RequestId = "req-1"
    /\ sent["g2"][1].Body[1].RequestId = "req-1"
    /\ exchangeCalls = 2

\* C8: Rate sends the amount with exactly two decimal digits, and "1.00" when
\* the request's Amount is not supplied (the zero value).
C8_AmountDefaultsToOne ==
    \A p \in Procs :
       (op[p] = "Rate" /\ sent[p] # << >>) =>
          LET req == arg[p][1]
              amount == IF req.Amount = 0 THEN "1.00" ELSE Sprintf02f(req.Amount)
          IN sent[p][1].Url =
                "https://b2b.revolut.com/api/1.0/rate?amount=" \o amount
                \o "&from=" \o req.From \o "&to=" \o req.To

\* C9: no method changes a field of the OAuthService or of the
\* ExchangeService, whatever the calls, their interleaving and their outcomes.
C9_ServicesImmutable == [][oa' = oa /\ e' = e]_vars

C9_Witness ==
    /\ e.err = Nil
    /\ op["g1"] = "Rate" /\ pc["g1"] = "returned" /\ ret["g1"].err # Nil
    /\ op["g2"] = "ExchangeAuthorisationCode" /\ pc["g2"] = "returned"
    /\ ret["g2"].result = Some([AccessToken |-> "tok", TokenType |-> "bearer",
                                ExpiresIn |-> 3600, RefreshToken |-> "ref"])
    /\ e.accessToken = "tok"

\* C10: GetAuthorisationCode(clientId, redirectUri) issues a GET to
\* /app-confirm with the query client_id=<clientId>&redirect_uri=<redirectUri>.
C10_AppConfirmQuery ==
    \A p \in Procs :
       (op[p] = "GetAuthorisationCode" /\ sent[p] # << >>) =>
          /\ sent[p][1].Method = "GET"
          /\ sent[p][1].Url =
                "https://business.revolut.com/app-confirm?client_id="
                \o arg[p][1].clientId \o "&redirect_uri=" \o arg[p][1].redirectUri

====
